---- MODULE Spec2Model ----
(***************************************************************************)
(* Model of shortcut_client.py: the bootstrap orchestration, the per-type  *)
(* upserts, the retrying transport _req, and the remote REST service the   *)
(* program talks to (its collections, as the program's requests change     *)
(* them).                                                                  *)
(***************************************************************************)
EXTENDS Integers, Sequences, FiniteSets, TLC

\* ------------------------------------------------------------------ bounds
MaxProjects == 1
MaxEpics == 1
MaxStories == 2
MaxTasks == 1
MaxSeed == 2
MaxRuns == 2
MaxResps == 6
FreeResps == 3
MaxDay == 15
MaxLen == 8
MaxWideTasks == 3

\* ------------------------------------------------- constants of the program
\* _req(..., retry:int=5)
retry == 5
\* resp.status_code in (429, 500, 502, 503, 504)
Retryable == {429, 500, 502, 503, 504}
\* cfg.get("org", {}).get("iteration_length_days", 7)
DefaultDays == 7
\* statuses a list call, a create call, an update call accept
ListAccepted == {200}
CreateAccepted == {200, 201}
UpdateAccepted == {200}

Kinds == {"projects", "milestones", "epics", "iterations", "stories", "tasks"}

SeqsUpTo(S, n) == UNION {[1..k -> S] : k \in 0..n}

Min(S) == CHOOSE x \in S : \A y \in S : x <= y

\* ---------------------------------------------------------------- transport
\* One answer of the remote to one HTTP request: its status, and whether the
\* remote applied the request.
Answer(st, ap) == [status |-> st, applied |-> ap]

RECURSIVE ReqLoopShort(_, _)
\* a loop over range(1, retry): one attempt short
ReqLoopShort(resps, attempt) ==
  IF resps[attempt].status \in Retryable /\ attempt + 1 < retry
    THEN ReqLoopShort(resps, attempt + 1)
    ELSE [attempts |-> attempt, status |-> resps[attempt].status, exit |-> 0,
          err |-> ""]

RECURSIVE ReqLoop(_, _)
\* the for loop of _req from `attempt` on: the number of requests sent and the
\* status of the response returned
ReqLoop(resps, attempt) ==
  IF resps[attempt].status \in Retryable /\ attempt + 1 <= retry
    THEN ReqLoop(resps, attempt + 1)
    ELSE [attempts |-> attempt, status |-> resps[attempt].status, exit |-> 0,
          err |-> ""]

\* _hdrs: sys.exit(2) when SHORTCUT_TOKEN is unset or empty (0: it returns)
_hdrs(tok) == IF tok THEN 0 ELSE 2

\* _req: _hdrs() is evaluated before the first request is sent
_req(resps, tok) ==
  IF tok THEN ReqLoop(resps, 1)
  ELSE [attempts |-> 0, status |-> 0, exit |-> _hdrs(tok), err |-> "token"]

\* ------------------------------------------------------------------- remote
NoPayload == [none |-> TRUE]

Is2xx(st) == st \in 200..299

\* the record the remote stores for a create request
Stored(payload, id) == [id |-> id] @@ payload

\* the record after an update request: the payload's fields overwrite
Overwritten(rec, payload) == payload @@ rec

\* how many of the requests of a call the remote applied
NApplied(r, resps, method) ==
  IF method = "GET" THEN 0
  ELSE Cardinality({k \in 1..r.attempts : resps[k].applied})

\* the remote applied a request of the call that it did not answer with a 2xx
Unfaithful(r, resps, method) ==
  method # "GET" /\ \E k \in 1..r.attempts :
                      resps[k].applied /\ ~Is2xx(resps[k].status)

\* the collection after n applied POSTs of payload, or after applied PUTs of
\* it on record id
Applied(list, method, id, payload, n, firstId) ==
  IF method = "POST"
    THEN list \o [k \in 1..n |-> Stored(payload, firstId + k - 1)]
  ELSE IF method = "PUT" /\ n > 0
    THEN [k \in 1..Len(list) |->
            IF list[k].id = id THEN Overwritten(list[k], payload) ELSE list[k]]
  ELSE list

\* the body of the response: the listing, the record created, the record updated
Body(method, id, n, old, new) ==
  IF method = "GET" THEN old
  ELSE IF n = 0 THEN <<>>
  ELSE IF method = "POST" THEN <<new[Len(new)]>>
  ELSE SelectSeq(new, LAMBDA x : x.id = id)

\* the world after a call of _req that returned r, with n requests applied
\* w = [remote, nextId, calls, resp, faithful]
After(w, r, n, unfaithful, method, kind, id, payload, new) ==
  [w |-> [remote |-> [w.remote EXCEPT ![kind] = new],
          nextId |-> IF method = "POST" THEN w.nextId + n ELSE w.nextId,
          calls |-> IF r.attempts > 0
                      THEN Append(w.calls, [method |-> method, kind |-> kind,
                                            id |-> id, payload |-> payload])
                      ELSE w.calls,
          resp |-> r.status,
          faithful |-> w.faithful /\ ~unfaithful],
   exit |-> r.exit,
   err |-> r.err,
   body |-> Body(method, id, n, w.remote[kind], new)]

Deliver(w, r, n, unfaithful, method, kind, id, payload) ==
  After(w, r, n, unfaithful, method, kind, id, payload,
        Applied(w.remote[kind], method, id, payload, n, w.nextId))

Transmit(w, r, resps, method, kind, id, payload) ==
  Deliver(w, r, NApplied(r, resps, method), Unfaithful(r, resps, method),
          method, kind, id, payload)

\* One call of _req against the remote: the world after it, the exit code
\* (0: the process goes on), the error that ended the process if one did, and
\* the body of the response returned.
Send(w, tok, method, kind, id, payload, resps) ==
  Transmit(w, _req(resps, tok), resps, method, kind, id, payload)

\* ------------------------------------------------------------ entity helpers
\* a _die that prints the error and returns
_warn(w) == [w |-> w, exit |-> 0, err |-> "", ret |-> <<>>]

\* _die: sys.exit(2)
_die(w) == [w |-> w, exit |-> 2, err |-> "api", ret |-> <<>>]

\* `return x` at the first match, `return None` when there is none
Head1(matches) == IF matches = <<>> THEN <<>> ELSE <<matches[1]>>

\* a scan that compares the name with the external_id
FirstMatchByName(list, external_id) ==
  Head1(SelectSeq(list, LAMBDA x : x.name = external_id))

\* for x in r.json(): if x.get("external_id") == external_id: return x
FirstMatch(list, external_id) ==
  Head1(SelectSeq(list, LAMBDA x : x.external_id = external_id))

\* `if r.status_code != 200: _die(...)` and its like, after the call s
Checked(s, accepted, ret) ==
  IF s.exit # 0 THEN [w |-> s.w, exit |-> s.exit, err |-> s.err, ret |-> <<>>]
  ELSE IF s.w.resp \notin accepted THEN _die(s.w)
  ELSE [w |-> s.w, exit |-> 0, err |-> "", ret |-> ret]

Scanned(s, external_id) == Checked(s, ListAccepted, FirstMatch(s.body, external_id))

\* find_<kind>_by_external_id: list the collection, scan for the first match
find_by_external_id(kind, external_id, w, tok, rl) ==
  Scanned(Send(w, tok, "GET", kind, 0, NoPayload, rl), external_id)

Returned(s, accepted) == Checked(s, accepted, s.body)

\* create_<kind>: POST, die unless 200 or 201
create(kind, payload, w, tok, rw) ==
  Returned(Send(w, tok, "POST", kind, 0, payload, rw), CreateAccepted)

\* update_<kind>: PUT on the record's id, die unless 200
update(kind, id, patch, w, tok, rw) ==
  Returned(Send(w, tok, "PUT", kind, id, patch, rw), UpdateAccepted)

\* an upsert that creates whatever the scan found
AlwaysCreate(found, kind, payload, tok, rw) ==
  IF found.exit # 0 THEN found
  ELSE create(kind, payload, found.w, tok, rw)

\* `if found: return update(found["id"], payload)`, `return create(payload)`
UpdateOrCreate(found, kind, payload, tok, rw) ==
  IF found.exit # 0 THEN found
  ELSE IF found.ret # <<>>
    THEN update(kind, found.ret[1].id, payload, found.w, tok, rw)
  ELSE create(kind, payload, found.w, tok, rw)

\* `if found: return found`, `return create_project(payload)`
ReuseOrCreate(found, kind, payload, tok, rw) ==
  IF found.exit # 0 \/ found.ret # <<>> THEN found
  ELSE create(kind, payload, found.w, tok, rw)

\* upsert_project: a project found is returned as it is, never updated
upsert_project(p, w, tok, rl, rw) ==
  ReuseOrCreate(find_by_external_id("projects", p.external_id, w, tok, rl),
                "projects",
                [name |-> p.name, description |-> p.description,
                 external_id |-> p.external_id], tok, rw)

\* upsert_milestone
upsert_milestone(m, w, tok, rl, rw) ==
  UpdateOrCreate(find_by_external_id("milestones", m.external_id, w, tok, rl),
                 "milestones",
                 [name |-> m.name, description |-> m.description,
                  state |-> m.state, external_id |-> m.external_id], tok, rw)

\* upsert_epic
upsert_epic(e, milestone_id, w, tok, rl, rw) ==
  UpdateOrCreate(find_by_external_id("epics", e.external_id, w, tok, rl),
                 "epics",
                 [name |-> e.name, description |-> e.description,
                  milestone_id |-> milestone_id, labels |-> e.labels,
                  external_id |-> e.external_id], tok, rw)

\* upsert_iteration
upsert_iteration(i, w, tok, rl, rw) ==
  UpdateOrCreate(find_by_external_id("iterations", i.external_id, w, tok, rl),
                 "iterations",
                 [name |-> i.name, start_date |-> i.start_date,
                  end_date |-> i.end_date, external_id |-> i.external_id], tok, rw)

\* upsert_story: the payload bootstrap assembled is sent as it is
upsert_story(s, w, tok, rl, rw) ==
  UpdateOrCreate(find_by_external_id("stories", s.external_id, w, tok, rl),
                 "stories", s, tok, rw)

\* a task upsert: lookup by external_id before the create
upsert_task(payload, w, tok, rw) ==
  UpdateOrCreate(find_by_external_id("tasks", payload.external_id, w, tok, rw),
                 "tasks", payload, tok, rw)

\* create_task: no lookup
create_task(payload, w, tok, rw) == create("tasks", payload, w, tok, rw)

\* ------------------------------------------------------------ configuration
\* The configuration documents the runs are given: the lists up to their
\* bounds; the org, milestone and iteration blocks present (a one-element
\* sequence) or absent (the empty sequence). A date is a day number
\* (date.toordinal()); 0 stands for a date the iteration block does not give.
ProjectNames == {"A"}
ProjectIds == {"p1"}
EpicNames == {"A"}
EpicIds == {"e1"}
StoryIds == {"s1", "s2"}
RefNames == {"A", "B"}
TaskTexts == {"t"}

ProjectCfgs ==
  {[name |-> n, description |-> "d", external_id |-> x] :
     n \in ProjectNames, x \in ProjectIds}

MilestoneCfg ==
  [name |-> "ms", description |-> "d", state |-> "to_do", external_id |-> "m1"]

EpicCfgs ==
  {[name |-> n, description |-> "d", labels |-> <<>>, external_id |-> x] :
     n \in EpicNames, x \in EpicIds}

IterationCfg ==
  [name |-> "it", start_date |-> 10, end_date |-> 16, external_id |-> "i1"]

StoryCfgs ==
  {[name |-> "st", description |-> "d", story_type |-> "feature", estimate |-> 1,
    labels |-> <<>>, external_id |-> x, project |-> "A", epic |-> e, tasks |-> t] :
     x \in StoryIds, e \in RefNames, t \in SeqsUpTo(TaskTexts, MaxTasks) \ {<<>>}}

Configs ==
  {[org |-> <<>>, projects |-> ps, milestone |-> m, epics |-> es, iteration |-> it,
    stories |-> ss] :
     ps \in SeqsUpTo(ProjectCfgs, MaxProjects),
     m \in {<<>>, <<MilestoneCfg>>},
     es \in SeqsUpTo(EpicCfgs, MaxEpics),
     it \in {<<>>, <<IterationCfg>>},
     ss \in SeqsUpTo(StoryCfgs, MaxStories)}

\* ------------------------------------------------- the remote at the start
\* `level` records of every type but task, all of one type carrying the same
\* external_id (level 2: the remote already holds duplicates), with field
\* values that differ from the configured ones.
SeedId(t, k) == (t - 1) * MaxSeed + k

SeedRemote(level) ==
  [projects |-> [k \in 1..level |->
      [id |-> SeedId(1, k), name |-> "old", description |-> "old",
       external_id |-> "p1"]],
   milestones |-> [k \in 1..level |->
      [id |-> SeedId(2, k), name |-> "old", description |-> "old",
       state |-> "done", external_id |-> "m1"]],
   epics |-> [k \in 1..level |->
      [id |-> SeedId(3, k), name |-> "old", description |-> "old",
       milestone_id |-> SeedId(2, 1), labels |-> <<>>, external_id |-> "e1"]],
   iterations |-> [k \in 1..level |->
      [id |-> SeedId(4, k), name |-> "old", start_date |-> 3, end_date |-> 9,
       external_id |-> "i1"]],
   stories |-> [k \in 1..level |->
      [id |-> SeedId(5, k), name |-> "old", description |-> "old",
       story_type |-> "bug", project_id |-> SeedId(1, 1), epic_id |-> SeedId(3, 1),
       estimate |-> 2, labels |-> <<>>, external_id |-> "s1"]],
   tasks |-> <<>>]

\* -------------------------------------------------------------------- state
VARIABLES
  cfg,        \* the configuration document (--config)
  cmd,        \* the command of the current run: "bootstrap" or "dry-run"
  tok,        \* whether SHORTCUT_TOKEN is set and not empty
  remote,     \* the remote collections, each in listing order
  nextId,     \* the id the remote gives the next record it creates
  faithful,   \* the remote has applied only requests it answered with a 2xx
  runs,       \* the number of runs started
  pc,         \* the position of the current run in bootstrap
  loc,        \* the local variables of bootstrap
  out,        \* the lines the current run printed on stdout
  calls,      \* the calls of _req of the current run that sent a request
  resp,       \* the status _req returned last in the current run (0: none)
  exitCode,   \* the exit code of the last run (-1: running, or never run)
  hist,       \* per finished run: its exit code, what ended it, the remote then
  start,      \* the remote before the first run
  wire,       \* the transport alone: the statuses the remote will answer with
  got,        \* a part of the program run alone: what it returned
  now,        \* the current day in the configured timezone (date.toordinal())
  lossy       \* the remote may apply a request and answer it with a failure

vars == <<cfg, cmd, tok, remote, nextId, faithful, runs, pc, loc, out, calls,
          resp, exitCode, hist, start, wire, got, now, lossy>>

World == [remote |-> remote, nextId |-> nextId, calls |-> calls, resp |-> resp,
          faithful |-> faithful]

Pos(stage, i, j) == [stage |-> stage, i |-> i, j |-> j]

NoLocals ==
  [name_to_project |-> [n \in RefNames |-> <<>>], milestone |-> <<>>,
   name_to_epic |-> [n \in RefNames |-> <<>>], iteration |-> <<>>, story |-> <<>>]

\* ------------------------------------------------- the statements' order
\* a stories loop that ends after its first pass
AfterStoryBreak(c, i) ==
  IF i < 1 /\ i < Len(c.stories) THEN Pos("stories", i + 1, 0) ELSE Pos("done", 0, 0)

\* the position after the body of the stories loop for story i is done
AfterStory(c, i) ==
  IF i < Len(c.stories) THEN Pos("stories", i + 1, 0) ELSE Pos("done", 0, 0)

\* the position after task j of story i
AfterTask(c, i, j) ==
  IF j < Len(c.stories[i].tasks) THEN Pos("tasks", i, j + 1) ELSE AfterStory(c, i)

\* the position after the iteration block
AfterIteration(c) == AfterStory(c, 0)

\* an epics loop that falls through to the stories loop
AfterEpicSkipIteration(c, i) ==
  IF i < Len(c.epics) THEN Pos("epics", i + 1, 0) ELSE AfterIteration(c)

\* the position after epic i: `if it_cfg:` skips the iteration block
AfterEpic(c, i) ==
  IF i < Len(c.epics) THEN Pos("epics", i + 1, 0)
  ELSE IF c.iteration # <<>> THEN Pos("iteration", 0, 0)
  ELSE AfterIteration(c)

\* the position after project i: the milestone block is never skipped
AfterProject(c, i) ==
  IF i < Len(c.projects) THEN Pos("projects", i + 1, 0) ELSE Pos("milestone", 0, 0)

\* a printed line: its prefix, the kind of entity, its place in the configuration
Line(tag, kind, i, j) == [tag |-> tag, kind |-> kind, i |-> i, j |-> j]

\* an external id from enumerate(...) without start=1
TaskExternalIdFromZero(story_external_id, idx) ==
  "beeai:task:" \o story_external_id \o ":" \o ToString(idx - 1)

\* f"beeai:task:{s['external_id']}:{idx}"
TaskExternalId(story_external_id, idx) ==
  "beeai:task:" \o story_external_id \o ":" \o ToString(idx)

\* ------------------------------------------------------------ termination
\* the process ends with exit code `code`; its memory is gone
Terminate(code, err, w, o) ==
  /\ pc' = Pos("done", 0, 0)
  /\ exitCode' = code
  /\ remote' = w.remote /\ nextId' = w.nextId /\ calls' = w.calls
  /\ resp' = w.resp /\ faithful' = w.faithful
  /\ out' = o
  /\ loc' = NoLocals
  /\ hist' = Append(hist, [exit |-> code, err |-> err, remote |-> w.remote])
  /\ UNCHANGED <<cfg, cmd, tok, runs, start, wire, got, now, lossy>>

\* bootstrap goes on at `pos`; falling off its end, main returns: exit code 0
Proceed(pos, w, l, o) ==
  IF pos.stage = "done" THEN Terminate(0, "", w, o)
  ELSE /\ pc' = pos /\ loc' = l /\ out' = o
       /\ remote' = w.remote /\ nextId' = w.nextId /\ calls' = w.calls
       /\ resp' = w.resp /\ faithful' = w.faithful
       /\ UNCHANGED <<cfg, cmd, tok, runs, exitCode, hist, start, wire, got, now, lossy>>

\* ------------------------------------------------------ the remote's answers
\* What the remote answers to the requests of one call of _req, in order: at
\* once with 200 or 201, with a fatal 404, with a 503 and then 200, and with
\* 500 to every attempt. The remote applies what it answers with a 2xx.
RespSeqs ==
  {<<Answer(200, TRUE)>>,
   <<Answer(201, TRUE)>>,
   <<Answer(404, FALSE)>>,
   <<Answer(503, FALSE), Answer(200, TRUE)>>,
   [k \in 1..retry |-> Answer(500, FALSE)]}

\* The answers of a remote that may lose its answer: it applies the first
\* request of a call and answers it with a 503, then answers the request sent
\* again with 200 (applying it again), or it answers at once.
LossySeqs ==
  {<<Answer(200, TRUE)>>,
   <<Answer(503, TRUE), Answer(200, TRUE)>>}

Answers == IF lossy THEN LossySeqs ELSE RespSeqs

DryRecord == [id |-> 0]

\* the day of the runs (a Wednesday) when the day is not what is varied
Today == 10

\* ------------------------------------------------------------------ actions
Init ==
  /\ cfg \in Configs
  /\ cmd \in {"bootstrap", "dry-run"}
  /\ tok \in BOOLEAN
  /\ start \in {SeedRemote(level) : level \in 0..MaxSeed}
  /\ remote = start
  /\ wire = <<>>
  /\ got = <<>>
  /\ now = Today
  /\ lossy = FALSE
  /\ nextId = SeedId(6, 1)
  /\ faithful = TRUE
  /\ runs = 0
  /\ pc = Pos("idle", 0, 0)
  /\ loc = NoLocals
  /\ out = <<>>
  /\ calls = <<>>
  /\ resp = 0
  /\ exitCode = -1
  /\ hist = <<>>

\* main: the process starts; the command and the environment are those of
\* the previous run
Main ==
    /\ pc.stage \in {"idle", "done"}
    /\ runs < MaxRuns
    /\ runs' = runs + 1
    /\ pc' = AfterProject(cfg, 0)
    /\ loc' = NoLocals
    /\ out' = <<>> /\ calls' = <<>> /\ resp' = 0
    /\ exitCode' = -1
    /\ UNCHANGED <<cfg, cmd, tok, remote, nextId, faithful, hist, start, wire, got,
                   now, lossy>>

\* a dry run whose placeholder record is empty
DryEmpty == [w |-> World, exit |-> 0, err |-> "", ret |-> <<>>]

\* a dry run that still lists the collection
DryListing ==
  [w |-> [World EXCEPT !.calls = Append(@, [method |-> "GET", kind |-> "projects",
                                            id |-> 0, payload |-> NoPayload])],
   exit |-> 0, err |-> "", ret |-> <<DryRecord>>]

\* what a dry run has in place of an upsert's result
Dry == [w |-> World, exit |-> 0, err |-> "", ret |-> <<DryRecord>>]

Tag == IF cmd = "dry-run" THEN "dry-run" ELSE "ok"

\* after the upsert or create returned r (or ended the process): the local
\* variables l, the line printed, the next statement
Settle(r, l, line, nxt) ==
  IF r.exit # 0 THEN Terminate(r.exit, r.err, r.w, out)
  ELSE Proceed(nxt, r.w, l, Append(out, line))

\* a projects loop that keeps the first record of a name
ProjectDoneKeepFirst(r, p) ==
  Settle(r, IF loc.name_to_project[p.name] # <<>> THEN loc
            ELSE [loc EXCEPT !.name_to_project[p.name] = r.ret],
         Line(Tag, "project", pc.i, 0), AfterProject(cfg, pc.i))

ProjectDone(r, p) ==
  Settle(r, [loc EXCEPT !.name_to_project[p.name] = r.ret],
         Line(Tag, "project", pc.i, 0), AfterProject(cfg, pc.i))

\* bootstrap, one pass of the projects loop
ProjectStep ==
  \E rl \in Answers, rw \in Answers :
    /\ pc.stage = "projects"
    /\ ProjectDone(IF cmd = "dry-run" THEN Dry
                   ELSE upsert_project(cfg.projects[pc.i], World, tok, rl, rw),
                   cfg.projects[pc.i])

MilestoneDone(r) ==
  Settle(r, [loc EXCEPT !.milestone = r.ret], Line(Tag, "milestone", 0, 0),
         AfterEpic(cfg, 0))

\* bootstrap, the milestone block: cfg["milestone"] raises KeyError when the
\* block is absent, and the uncaught exception ends the process with code 1
MilestoneStep ==
  \E rl \in Answers, rw \in Answers :
    /\ pc.stage = "milestone"
    /\ IF cfg.milestone = <<>> THEN Terminate(1, "KeyError", World, out)
       ELSE MilestoneDone(IF cmd = "dry-run" THEN Dry
                          ELSE upsert_milestone(cfg.milestone[1], World, tok, rl, rw))

EpicDone(r, e) ==
  Settle(r, [loc EXCEPT !.name_to_epic[e.name] = r.ret],
         Line(Tag, "epic", pc.i, 0), AfterEpic(cfg, pc.i))

\* bootstrap, one pass of the epics loop
EpicStep ==
  \E rl \in Answers, rw \in Answers :
    /\ pc.stage = "epics"
    /\ EpicDone(IF cmd = "dry-run" THEN Dry
                ELSE upsert_epic(cfg.epics[pc.i], loc.milestone[1].id,
                                 World, tok, rl, rw),
                cfg.epics[pc.i])

IterationDone(r) ==
  Settle(r, [loc EXCEPT !.iteration = r.ret], Line(Tag, "iteration", 0, 0),
         AfterIteration(cfg))

\* date.isoweekday() in the place of date.weekday(): Monday is 1
isoweekday(day) == ((day + 6) % 7) + 1

\* date.weekday(): Monday is 0; day 1 (0001-01-01) is a Monday
weekday(day) == (day + 6) % 7

\* the start and end dates, from the Monday `monday` of the current week
WeekFrom(monday, iteration_length_days) ==
  [start |-> monday, end |-> monday + (iteration_length_days - 1)]

\* _iso_week_dates, on the current day in the configured timezone
_iso_week_dates(today, iteration_length_days) ==
  WeekFrom(today - weekday(today), iteration_length_days)

\* int(cfg.get("org", {}).get("iteration_length_days", 7))
Days(c) == IF c.org = <<>> THEN DefaultDays ELSE c.org[1].iteration_length_days

\* it_payload with the dates `dates`
DatedPayload(it_cfg, dates) ==
  [name |-> it_cfg.name, start_date |-> dates.start,
   end_date |-> dates.end, external_id |-> it_cfg.external_id]

\* it_payload: `if not start or not end:` both dates are computed
IterationPayload(it_cfg, days, today) ==
  DatedPayload(it_cfg,
               IF it_cfg.start_date = 0 \/ it_cfg.end_date = 0
                 THEN _iso_week_dates(today, days)
                 ELSE [start |-> it_cfg.start_date, end |-> it_cfg.end_date])

\* bootstrap, the iteration block, entered when the configuration has one
IterationStep ==
  \E rl \in Answers, rw \in Answers :
    /\ pc.stage = "iteration"
    /\ IterationDone(IF cmd = "dry-run" THEN Dry
                     ELSE upsert_iteration(
                            IterationPayload(cfg.iteration[1], Days(cfg), now),
                            World, tok, rl, rw))

\* a story_payload that never refers to the iteration
StoryPayloadNoIteration(s, proj, epic, iteration) ==
  [name |-> s.name, description |-> s.description,
   story_type |-> s.story_type, project_id |-> proj.id,
   epic_id |-> epic.id, estimate |-> s.estimate, labels |-> s.labels,
   external_id |-> s.external_id]

\* story_payload
StoryPayload(s, proj, epic, iteration) ==
  IF iteration # <<>>
    THEN [name |-> s.name, description |-> s.description,
          story_type |-> s.story_type, project_id |-> proj.id,
          epic_id |-> epic.id, estimate |-> s.estimate, labels |-> s.labels,
          external_id |-> s.external_id, iteration_id |-> iteration[1].id]
    ELSE [name |-> s.name, description |-> s.description,
          story_type |-> s.story_type, project_id |-> proj.id,
          epic_id |-> epic.id, estimate |-> s.estimate, labels |-> s.labels,
          external_id |-> s.external_id]

StoryDone(r) ==
  Settle(r, [loc EXCEPT !.story = r.ret], Line(Tag, "story", pc.i, 0),
         AfterTask(cfg, pc.i, 0))

\* `if not proj or not epic`
Unresolved(s) ==
  loc.name_to_project[s.project] = <<>> \/ loc.name_to_epic[s.epic] = <<>>

\* bootstrap, one pass of the stories loop up to its tasks loop
StoryStep ==
  \E rl \in Answers, rw \in Answers :
    /\ pc.stage = "stories"
    /\ IF Unresolved(cfg.stories[pc.i]) THEN Terminate(2, "unresolved", World, out)
       ELSE StoryDone(IF cmd = "dry-run" THEN Dry
                      ELSE upsert_story(
                             StoryPayload(cfg.stories[pc.i],
                               loc.name_to_project[cfg.stories[pc.i].project][1],
                               loc.name_to_epic[cfg.stories[pc.i].epic][1],
                               loc.iteration),
                             World, tok, rl, rw))

TaskDone(r) ==
  Settle(r, loc, Line(Tag, "task", pc.i, pc.j), AfterTask(cfg, pc.i, pc.j))

\* task_payload
TaskPayload(s, idx, story) ==
  [description |-> s.tasks[idx], story_id |-> story.id,
   external_id |-> TaskExternalId(s.external_id, idx)]

\* bootstrap, one pass of the tasks loop of story pc.i
TaskStep ==
  \E rw \in Answers :
    /\ pc.stage = "tasks"
    /\ TaskDone(IF cmd = "dry-run" THEN Dry
                ELSE create_task(TaskPayload(cfg.stories[pc.i], pc.j, loc.story[1]),
                                 World, tok, rw))

Next ==
  \/ Main
  \/ ProjectStep
  \/ MilestoneStep
  \/ EpicStep
  \/ IterationStep
  \/ StoryStep
  \/ TaskStep

Spec == Init /\ [][Next]_vars

\* a step of the running process: the process is sequential and every call it
\* makes returns (requests.request has a timeout), so it is never stopped
\* for ever before its next statement
Step ==
  ProjectStep \/ MilestoneStep \/ EpicStep \/ IterationStep \/ StoryStep \/ TaskStep

\* the configurations with a milestone block and stories that name the
\* configured project and epic
PassConfigs ==
  {c \in Configs :
     /\ c.milestone # <<>>
     /\ \A i \in 1..Len(c.stories) :
          /\ \E k \in 1..Len(c.projects) : c.projects[k].name = c.stories[i].project
          /\ \E k \in 1..Len(c.epics) : c.epics[k].name = c.stories[i].epic}

InitLive ==
  /\ cfg \in PassConfigs
  /\ cmd = "bootstrap" /\ tok = TRUE
  /\ start \in {SeedRemote(level) : level \in 0..1}
  /\ remote = start
  /\ wire = <<>> /\ got = <<>> /\ now = Today /\ lossy = FALSE
  /\ nextId = SeedId(6, 1) /\ faithful = TRUE /\ runs = 0
  /\ pc = Pos("idle", 0, 0) /\ loc = NoLocals /\ out = <<>>
  /\ calls = <<>> /\ resp = 0 /\ exitCode = -1 /\ hist = <<>>

SpecLive == InitLive /\ [][Next]_vars /\ WF_vars(Step)

\* ---- runs against a remote that may lose its answer ----
InitLossy ==
  /\ cfg \in PassConfigs
  /\ cmd = "bootstrap" /\ tok = TRUE
  /\ start \in {SeedRemote(level) : level \in 0..1}
  /\ remote = start
  /\ wire = <<>> /\ got = <<>> /\ now = Today /\ lossy = TRUE
  /\ nextId = SeedId(6, 1) /\ faithful = TRUE /\ runs = 0
  /\ pc = Pos("idle", 0, 0) /\ loc = NoLocals /\ out = <<>>
  /\ calls = <<>> /\ resp = 0 /\ exitCode = -1 /\ hist = <<>>

SpecLossy == InitLossy /\ [][Next]_vars

\* ---- runs on configurations with names that occur twice and longer task
\* lists ----
WideTaskTexts == {"t", "u"}

WideProjects ==
  {<<[name |-> "A", description |-> "d", external_id |-> "p1"],
     [name |-> n, description |-> "d", external_id |-> "p2"]>> : n \in RefNames}

WideEpics ==
  <<[name |-> "A", description |-> "d", labels |-> <<>>, external_id |-> "e1"],
    [name |-> "A", description |-> "d", labels |-> <<>>, external_id |-> "e2"]>>

WideStories ==
  {<<[name |-> "st", description |-> "d", story_type |-> "feature", estimate |-> 1,
      labels |-> <<>>, external_id |-> "s1", project |-> "A", epic |-> "A",
      tasks |-> t]>> : t \in SeqsUpTo(WideTaskTexts, MaxWideTasks) \ {<<>>}}

WideConfigs ==
  {[org |-> <<>>, projects |-> ps, milestone |-> <<MilestoneCfg>>, epics |-> WideEpics,
    iteration |-> it, stories |-> ss] :
     ps \in WideProjects, it \in {<<>>, <<IterationCfg>>}, ss \in WideStories}

InitWide ==
  /\ cfg \in WideConfigs
  /\ cmd = "bootstrap" /\ tok = TRUE
  /\ start \in {SeedRemote(level) : level \in 0..1}
  /\ remote = start
  /\ wire = <<>> /\ got = <<>> /\ now = Today /\ lossy = FALSE
  /\ nextId = SeedId(6, 1) /\ faithful = TRUE /\ runs = 0
  /\ pc = Pos("idle", 0, 0) /\ loc = NoLocals /\ out = <<>>
  /\ calls = <<>> /\ resp = 0 /\ exitCode = -1 /\ hist = <<>>

SpecWide == InitWide /\ [][Next]_vars

\* ---- the dates of the iteration payload, computed alone ----
DateConfigs ==
  {[org |-> o, projects |-> <<>>, milestone |-> <<MilestoneCfg>>, epics |-> <<>>,
    iteration |-> <<[IterationCfg EXCEPT !.start_date = s, !.end_date = e]>>,
    stories |-> <<>>] :
     o \in {<<>>} \cup {<<[iteration_length_days |-> l]>> : l \in 1..MaxLen},
     s \in {0, IterationCfg.start_date}, e \in {0, IterationCfg.end_date}}

InitDates ==
  /\ cfg \in DateConfigs
  /\ now \in 1..MaxDay
  /\ got = <<>> /\ wire = <<>> /\ lossy = FALSE
  /\ cmd = "bootstrap" /\ tok = TRUE
  /\ start = SeedRemote(0) /\ remote = start
  /\ nextId = SeedId(6, 1) /\ faithful = TRUE /\ runs = 0
  /\ pc = Pos("idle", 0, 0) /\ loc = NoLocals /\ out = <<>>
  /\ calls = <<>> /\ resp = 0 /\ exitCode = -1 /\ hist = <<>>

\* bootstrap, the iteration block up to it_payload
it_payload ==
  /\ got = <<>>
  /\ got' = <<IterationPayload(cfg.iteration[1], Days(cfg), now)>>
  /\ UNCHANGED <<cfg, cmd, tok, remote, nextId, faithful, runs, pc, loc, out,
                 calls, resp, exitCode, hist, start, wire, now, lossy>>

NextDates == it_payload

SpecDates == InitDates /\ [][NextDates]_vars

\* ---- one call of the transport, seen from each of its callers ----

\* the statuses the remote may answer with; the answers past the first
\* FreeResps are drawn from a success and a retryable failure
Statuses == {200, 201, 404, 429, 500, 502, 503, 504}
LateStatuses == {200, 500}
Wires ==
  {[k \in 1..MaxResps |->
      Answer(IF k <= FreeResps THEN h[k] ELSE t[k],
             Is2xx(IF k <= FreeResps THEN h[k] ELSE t[k]))] :
     h \in [1..FreeResps -> Statuses], t \in [(FreeResps + 1)..MaxResps -> LateStatuses]}

ReqCfg ==
  [org |-> <<>>, projects |-> <<>>, milestone |-> <<MilestoneCfg>>, epics |-> <<>>,
   iteration |-> <<>>, stories |-> <<>>]

InitReq ==
  /\ wire \in Wires
  /\ got = <<>>
  /\ now = Today /\ lossy = FALSE
  /\ cfg = ReqCfg /\ cmd = "bootstrap" /\ tok = TRUE
  /\ start = SeedRemote(1) /\ remote = start
  /\ nextId = SeedId(6, 1) /\ faithful = TRUE /\ runs = 0
  /\ pc = Pos("idle", 0, 0) /\ loc = NoLocals /\ out = <<>>
  /\ calls = <<>> /\ resp = 0 /\ exitCode = -1 /\ hist = <<>>

\* what the caller saw of the call: r is what _req returned, s what the
\* caller made of it
Outcome(caller, r, s) ==
  [caller |-> caller, attempts |-> r.attempts, status |-> r.status, exit |-> s.exit]

Called(caller, s) ==
  /\ got = <<>>
  /\ got' = <<Outcome(caller, _req(wire, tok), s)>>
  /\ UNCHANGED <<cfg, cmd, tok, remote, nextId, faithful, runs, pc, loc, out,
                 calls, resp, exitCode, hist, start, wire, now, lossy>>

get_milestones ==
  Called("list", find_by_external_id("milestones", MilestoneCfg.external_id, World, tok, wire))

create_milestone ==
  Called("create", create("milestones", MilestoneCfg, World, tok, wire))

update_milestone ==
  Called("update", update("milestones", SeedId(2, 1), MilestoneCfg, World, tok, wire))

NextReq == get_milestones \/ create_milestone \/ update_milestone

SpecReq == InitReq /\ [][NextReq]_vars

\* ------------------------------------------------------------------ claims
EntityKinds == {"projects", "milestones", "epics", "iterations", "stories"}

\* two records of the list carry the same external_id
HasDuplicate(list) ==
  \E a \in 1..Len(list), b \in 1..Len(list) :
     a < b /\ list[a].external_id = list[b].external_id

DuplicateFree(rem) == \A k \in EntityKinds : ~HasDuplicate(rem[k])

\* the calls of the current run that create a record of one of the kinds
Creates(kinds) ==
  {n \in 1..Len(calls) : calls[n].method = "POST" /\ calls[n].kind \in kinds}

\* C1: when two consecutive runs on the same configuration meet no API error,
\* every collection but the tasks has as many records after the later run as
\* after the earlier one, and the later run sends no create for them.
C1_Idempotent ==
  /\ \A r \in 1..(Len(hist) - 1) :
       (hist[r].err # "api" /\ hist[r + 1].err # "api")
         => \A k \in EntityKinds :
              Len(hist[r + 1].remote[k]) = Len(hist[r].remote[k])
  /\ (runs >= 2 /\ hist[runs - 1].err # "api") => Creates(EntityKinds) = {}

\* two completed bootstrap runs from an empty remote that created a record of
\* every type in the first run
C1_Witness ==
  /\ Len(hist) = 2 /\ cmd = "bootstrap"
  /\ hist[1].exit = 0 /\ hist[2].exit = 0
  /\ \A k \in EntityKinds : start[k] = <<>> /\ Len(hist[1].remote[k]) >= 1
  /\ Len(remote["stories"]) = 2

\* C2: from a remote without duplicates, whatever runs follow (completed or
\* aborted), no two records of one type share an external_id. The runs of one
\* behaviour read one configuration; the records present at the start stand
\* for what runs on other configurations left behind.
C2_NoDuplicates == DuplicateFree(start) => DuplicateFree(remote)

\* a run aborted by an API error and a completed one, on a configuration
\* that names one story external_id twice: the remote holds it once
C2_Witness ==
  /\ DuplicateFree(start)
  /\ Len(hist) = 2 /\ hist[1].err = "api" /\ hist[2].exit = 0
  /\ Len(cfg.stories) = 2
  /\ cfg.stories[1].external_id = cfg.stories[2].external_id
  /\ Len(remote["stories"]) = 1
  /\ Len(remote["projects"]) = 1 /\ Len(remote["epics"]) = 1

\* the remote id of the story with this external_id: the first in the listing
StoryRemoteIds(rem, external_id) ==
  {rem["stories"][n].id : n \in
     {m \in 1..Len(rem["stories"]) :
        /\ rem["stories"][m].external_id = external_id
        /\ \A l \in 1..(m - 1) : rem["stories"][l].external_id # external_id}}

\* the number of remote tasks attached to that story
TaskCount(rem, external_id) ==
  Cardinality({n \in 1..Len(rem["tasks"]) :
                 rem["tasks"][n].story_id \in StoryRemoteIds(rem, external_id)})

BothCompleted ==
  Len(hist) >= 2 /\ cmd = "bootstrap" /\ hist[1].exit = 0 /\ hist[2].exit = 0

SharedStoryId(i) ==
  \E j \in 1..Len(cfg.stories) :
     j # i /\ cfg.stories[j].external_id = cfg.stories[i].external_id

RECURSIVE TotalTasks(_, _)
TotalTasks(stories, n) ==
  IF n = 0 THEN 0 ELSE Len(stories[n].tasks) + TotalTasks(stories, n - 1)

HasUnresolvedStory(c) ==
  \E i \in 1..Len(c.stories) :
     \/ c.stories[i].project \notin {c.projects[k].name : k \in 1..Len(c.projects)}
     \/ c.stories[i].epic \notin {c.epics[k].name : k \in 1..Len(c.epics)}

\* the calls of the current run that write a story or a task
StoryWrites ==
  {n \in 1..Len(calls) :
     calls[n].kind \in {"stories", "tasks"} /\ calls[n].method \in {"POST", "PUT"}}

\* C4 as stated: a run on a configuration with an unresolved story reference
\* (and a milestone block), in which no API call failed, ends with exit code 2
\* and has sent no story create or update and no task create.
C4_AbortsBeforeAnyStoryWrite ==
  (/\ pc.stage = "done" /\ HasUnresolvedStory(cfg) /\ cfg.milestone # <<>>
   /\ hist[Len(hist)].err \notin {"api", "token"})
    => (exitCode = 2 /\ StoryWrites = {})

\* the places in the output of the [dry-run] line of one configured entity
DryLines(kind, i, j) ==
  {n \in 1..Len(out) :
     out[n] = [tag |-> "dry-run", kind |-> kind, i |-> i, j |-> j]}

\* C5: a dry run sends no HTTP request; on a configuration with a milestone
\* block and resolvable story references it prints exactly one [dry-run] line
\* per project, for the milestone, per epic, for the iteration if configured,
\* per story and per task, each task line after its story's line and before
\* the next story's line.
C5_DryRun ==
  cmd = "dry-run" =>
    /\ calls = <<>> /\ resp = 0 /\ remote = start
    /\ (pc.stage = "done" /\ cfg.milestone # <<>> /\ ~HasUnresolvedStory(cfg)) =>
         /\ \A i \in 1..Len(cfg.projects) : Cardinality(DryLines("project", i, 0)) = 1
         /\ Cardinality(DryLines("milestone", 0, 0)) = 1
         /\ \A i \in 1..Len(cfg.epics) : Cardinality(DryLines("epic", i, 0)) = 1
         /\ Cardinality(DryLines("iteration", 0, 0)) = Len(cfg.iteration)
         /\ \A i \in 1..Len(cfg.stories) :
              /\ Cardinality(DryLines("story", i, 0)) = 1
              /\ \A j \in 1..Len(cfg.stories[i].tasks) :
                   /\ Cardinality(DryLines("task", i, j)) = 1
                   /\ \A t \in DryLines("task", i, j) :
                        /\ \A n \in DryLines("story", i, 0) : n < t
                        /\ \A n \in DryLines("story", i + 1, 0) : t < n
         /\ Len(out) = Len(cfg.projects) + 1 + Len(cfg.epics) + Len(cfg.iteration)
                         + Len(cfg.stories) + TotalTasks(cfg.stories, Len(cfg.stories))

\* a finished dry run on a configuration with a project, the milestone, an
\* epic, the iteration and two stories with a task each
C5_Witness ==
  /\ cmd = "dry-run" /\ pc.stage = "done" /\ exitCode = 0
  /\ Len(cfg.projects) = 1 /\ Len(cfg.epics) = 1 /\ cfg.iteration # <<>>
  /\ Len(cfg.stories) = 2
  /\ Len(out) = 8
  /\ out[6].kind = "task" /\ out[7].kind = "story"

\* the statuses on which the transport tries again: 429, 500, 502, 503, 504
RetryableStatuses == {429, 500, 502, 503, 504}

\* the places of the answers that are not retryable
Stops == {k \in 1..Len(wire) : wire[k].status \notin RetryableStatuses}

\* C6: the number of attempts of one call of the transport is the place of
\* the first answer that is not retryable if that place is at most 5, and 5
\* otherwise; the response returned is the one of the last attempt; answers
\* 503, 503, 200 give 3 attempts and the 200 to a caller that goes on; five
\* answers 500 give 5 attempts and the fifth 500, which the caller treats
\* as fatal.
C6_RetryAttempts ==
  got # <<>> =>
    /\ got[1].attempts =
         (IF Stops # {} /\ Min(Stops) <= 5 THEN Min(Stops) ELSE 5)
    /\ got[1].status = wire[got[1].attempts].status
    /\ (wire[1].status = 503 /\ wire[2].status = 503 /\ wire[3].status = 200)
         => (got[1].attempts = 3 /\ got[1].status = 200 /\ got[1].exit = 0)
    /\ (\A k \in 1..5 : wire[k].status = 500)
         => (got[1].attempts = 5 /\ got[1].status = 500 /\ got[1].exit = 2)
    /\ ~Is2xx(got[1].status) => got[1].exit = 2

\* five answers 500 followed by a 200 that is never asked for
C6_Witness ==
  /\ got # <<>>
  /\ \A k \in 1..5 : wire[k].status = 500
  /\ wire[6].status = 200
  /\ got[1].attempts = 5 /\ got[1].status = 500 /\ got[1].exit = 2

\* C7 as stated: a run on a configuration without milestone block ends with
\* exit code 2.
C7_MissingMilestoneExits2 ==
  (pc.stage = "done" /\ cfg.milestone = <<>>) => exitCode = 2

\* C8 as stated: a bootstrap run without token sends no HTTP request and ends
\* with exit code 2.
C8_MissingTokenExits2 ==
  (cmd = "bootstrap" /\ ~tok) =>
    (calls = <<>> /\ (pc.stage = "done" => exitCode = 2))

\* C9: when _req returns a response that is not a 2xx, the process has ended
\* with exit code 2 and the step that met it left the remote as it was; once
\* the process has ended, the only calls to come are those of a new run.
C9_FailFast ==
  [][/\ (resp' # 0 /\ ~Is2xx(resp')) => (pc'.stage = "done" /\ exitCode' = 2)
     /\ (resp' # 0 /\ ~Is2xx(resp') /\ pc.stage # "done") => remote' = remote
     /\ pc.stage = "done" => (calls' = calls \/ (runs' = runs + 1 /\ calls' = <<>>))
    ]_vars

\* a run that created records and then met a 404
C9_Witness ==
  /\ pc.stage = "done" /\ exitCode = 2 /\ resp = 404
  /\ Len(calls) >= 5
  /\ start["epics"] = <<>> /\ Len(remote["epics"]) = 1
  /\ Len(remote["stories"]) = 0 /\ Len(cfg.stories) >= 1

\* the pass of the loop that is about to run: the collection it reconciles
\* and the configured entity it reconciles
ReconciledKind ==
  CASE pc.stage = "projects" -> "projects"
    [] pc.stage = "milestone" -> "milestones"
    [] pc.stage = "epics" -> "epics"
    [] pc.stage = "iteration" -> "iterations"
    [] pc.stage = "stories" -> "stories"

Desired ==
  CASE pc.stage = "projects" -> cfg.projects[pc.i]
    [] pc.stage = "milestone" -> cfg.milestone[1]
    [] pc.stage = "epics" -> cfg.epics[pc.i]
    [] pc.stage = "iteration" -> cfg.iteration[1]
    [] pc.stage = "stories" -> cfg.stories[pc.i]

\* where the pass keeps the record its upsert returned
Kept(l) ==
  CASE pc.stage = "projects" -> l.name_to_project[cfg.projects[pc.i].name]
    [] pc.stage = "milestone" -> l.milestone
    [] pc.stage = "epics" -> l.name_to_epic[cfg.epics[pc.i].name]
    [] pc.stage = "iteration" -> l.iteration
    [] pc.stage = "stories" -> l.story

\* an upsert of a bootstrap run has returned
UpsertPassed ==
  /\ cmd = "bootstrap"
  /\ pc.stage \in {"projects", "milestone", "epics", "iteration", "stories"}
  /\ Len(out') = Len(out) + 1

\* the payload carries what the configuration asks of the entity
Carries(payload, desired) ==
  /\ {"name", "external_id"} \subseteq DOMAIN payload
  /\ \A f \in (DOMAIN payload) \cap (DOMAIN desired) : payload[f] = desired[f]

UpdatedOnly(write, found, before, after) ==
  /\ write.method = "PUT" /\ write.id = found[1].id
  /\ Len(after) = Len(before)

CreatedOnly(write, before, after) ==
  /\ write.method = "POST"
  /\ Len(after) = Len(before) + 1

Protocol(list, write, found, kind, desired, before, after) ==
  /\ list.method = "GET" /\ list.kind = kind
  /\ write.kind = kind
  /\ Carries(write.payload, desired)
  /\ IF found # <<>> THEN UpdatedOnly(write, found, before, after)
                     ELSE CreatedOnly(write, before, after)

\* the record the upsert returned is the remote's record it wrote
ReturnsWritten(kept, found, desired, after) ==
  /\ Len(kept) = 1
  /\ \E k \in 1..Len(after) : after[k] = kept[1]
  /\ kept[1].external_id = desired.external_id
  /\ IF found # <<>> THEN kept[1].id = found[1].id ELSE kept[1] = after[Len(after)]

\* the records of the collection under reconciliation that carry the desired
\* external_id, in listing order
Found == SelectSeq(remote[ReconciledKind], LAMBDA x : x.external_id = Desired.external_id)

\* C10 as stated: every upsert of a project, a milestone, an epic, an
\* iteration or a story that returns has sent the list call and then one write
\* call with the full desired payload: an update against the id of the first
\* record of that external_id if there is one, a create if there is none, and
\* returns the record written (kept by the run as long as it goes on).
C10_UpsertProtocol ==
  [][UpsertPassed =>
       /\ Len(calls') = Len(calls) + 2
       /\ Protocol(calls'[Len(calls) + 1], calls'[Len(calls) + 2], Found,
                   ReconciledKind, Desired, remote[ReconciledKind], remote'[ReconciledKind])
       /\ pc'.stage # "done" =>
            ReturnsWritten(Kept(loc'), Found, Desired, remote'[ReconciledKind])
    ]_vars

\* no two configured entities of one type carry the same external_id
DistinctIds(c) ==
  /\ \A a \in 1..Len(c.projects), b \in 1..Len(c.projects) :
       a # b => c.projects[a].external_id # c.projects[b].external_id
  /\ \A a \in 1..Len(c.epics), b \in 1..Len(c.epics) :
       a # b => c.epics[a].external_id # c.epics[b].external_id
  /\ \A a \in 1..Len(c.stories), b \in 1..Len(c.stories) :
       a # b => c.stories[a].external_id # c.stories[b].external_id

\* the remote holds a record of the kind with the external_id of the
\* configured entity and the configured values in the fields
Holds(kind, desired, fields) ==
  \E k \in 1..Len(remote[kind]) :
     /\ remote[kind][k].external_id = desired.external_id
     /\ \A f \in fields : remote[kind][k][f] = desired[f]

\* C11 as stated: after a bootstrap run that ended with exit code 0 on a
\* configuration whose external_ids are distinct within each type, the remote
\* holds for every configured project, the milestone, every epic, the
\* iteration and every story a record with its external_id and its configured
\* field values.
C11_RemoteMatchesDesired ==
  (pc.stage = "done" /\ cmd = "bootstrap" /\ exitCode = 0 /\ DistinctIds(cfg)) =>
    /\ \A i \in 1..Len(cfg.projects) :
         Holds("projects", cfg.projects[i], {"name", "description"})
    /\ Holds("milestones", cfg.milestone[1], {"name", "description", "state"})
    /\ \A i \in 1..Len(cfg.epics) :
         Holds("epics", cfg.epics[i], {"name", "description", "labels"})
    /\ \A i \in 1..Len(cfg.iteration) :
         Holds("iterations", cfg.iteration[i], {"name", "start_date", "end_date"})
    /\ \A i \in 1..Len(cfg.stories) :
         Holds("stories", cfg.stories[i],
               {"name", "description", "story_type", "estimate", "labels"})

\* the list calls and the write calls of a kind among the first n - 1 calls
\* of the current run
ListsBefore(kind, n) ==
  Cardinality({m \in 1..(n - 1) : calls[m].kind = kind /\ calls[m].method = "GET"})

WritesBefore(kind, n) ==
  Cardinality({m \in 1..(n - 1) : calls[m].kind = kind /\ calls[m].method # "GET"})

\* the calls from n on are all of the kinds
OnlyFrom(kinds, n) == \A m \in n..Len(calls) : calls[m].kind \in kinds

\* the place of the last call on stories before call n
LastStoryCall(n) ==
  CHOOSE m \in 1..(n - 1) :
    /\ calls[m].kind = "stories"
    /\ \A k \in (m + 1)..(n - 1) : calls[k].kind # "stories"

\* call n creates a task of configured story g, the story whose upsert has
\* returned last
TaskOfStory(n, g) ==
  /\ g >= 1
  /\ WritesBefore("stories", n) = g
  /\ n - LastStoryCall(n) <= Len(cfg.stories[g].tasks)
  /\ \A m \in (LastStoryCall(n) + 1)..n : calls[m].kind = "tasks"
  /\ \E j \in 1..Len(cfg.stories[g].tasks) :
       calls[n].payload.external_id = TaskExternalId(cfg.stories[g].external_id, j)

\* C12: in a bootstrap run every call on epics comes after the milestone
\* upsert has sent its list and its write; every call on stories comes after
\* the list (and the write) of every configured project, of every configured
\* epic and of the iteration if configured, and no call on them follows; every
\* task create follows the write of its own story with no call on stories in
\* between.
C12_ParentBeforeChild ==
  \A n \in 1..Len(calls) :
    /\ calls[n].kind = "epics" =>
         /\ ListsBefore("milestones", n) = 1 /\ WritesBefore("milestones", n) = 1
         /\ OnlyFrom(Kinds \ {"projects", "milestones"}, n)
    /\ calls[n].kind = "stories" =>
         /\ ListsBefore("projects", n) = Len(cfg.projects)
         /\ ListsBefore("milestones", n) = 1 /\ WritesBefore("milestones", n) = 1
         /\ ListsBefore("epics", n) = Len(cfg.epics)
         /\ WritesBefore("epics", n) = Len(cfg.epics)
         /\ ListsBefore("iterations", n) = Len(cfg.iteration)
         /\ WritesBefore("iterations", n) = Len(cfg.iteration)
         /\ OnlyFrom({"stories", "tasks"}, n)
    /\ calls[n].kind = "tasks" => TaskOfStory(n, ListsBefore("stories", n))

\* a completed run from an empty remote on a configuration with a project,
\* the milestone, an epic, the iteration and two stories with a task each
C12_Witness ==
  /\ pc.stage = "done" /\ exitCode = 0 /\ cmd = "bootstrap"
  /\ start["projects"] = <<>> /\ runs = 1
  /\ Len(cfg.projects) = 1 /\ Len(cfg.epics) = 1 /\ Len(cfg.iteration) = 1
  /\ Len(cfg.stories) = 2
  /\ cfg.stories[1].external_id # cfg.stories[2].external_id
  /\ Len(calls) = 14
  /\ calls[11].kind = "tasks" /\ calls[12].kind = "stories"

\* call n is the create of task j of configured story g, with the external id
\* beeai:task:S:j for the story's external id S
TaskCreate(n, g, j) ==
  /\ calls[n].method = "POST"
  /\ g \in 1..Len(cfg.stories) /\ j \in 1..Len(cfg.stories[g].tasks)
  /\ calls[n].payload.description = cfg.stories[g].tasks[j]
  /\ calls[n].payload.external_id =
       "beeai:task:" \o cfg.stories[g].external_id \o ":" \o ToString(j)
  /\ (cfg.stories[g].external_id = "s1" /\ j = 2)
       => calls[n].payload.external_id = "beeai:task:s1:2"

\* C13: the j-th call on tasks after the upsert of a story creates the j-th
\* task of that story's list, with external_id beeai:task:S:j for the story's
\* external id S.
C13_TaskExternalIds ==
  \A n \in 1..Len(calls) :
    calls[n].kind = "tasks" =>
      TaskCreate(n, ListsBefore("stories", n), n - LastStoryCall(n))

\* a completed run on a story with the tasks t, u, t
C13_Witness ==
  /\ pc.stage = "done" /\ exitCode = 0
  /\ cfg.stories[1].tasks = <<"t", "u", "t">>
  /\ Len(calls) >= 3
  /\ calls[Len(calls) - 2].payload.external_id = "beeai:task:s1:1"
  /\ calls[Len(calls) - 1].payload.external_id = "beeai:task:s1:2"
  /\ calls[Len(calls) - 1].payload.description = "u"
  /\ calls[Len(calls)].payload.external_id = "beeai:task:s1:3"

\* the record the iteration upsert returned is the one its write call wrote
IterationReturned(write, kept, after) ==
  /\ Len(kept) = 1
  /\ kept[1].external_id = cfg.iteration[1].external_id
  /\ \E k \in 1..Len(after) : after[k] = kept[1]
  /\ IF write.method = "PUT" THEN kept[1].id = write.id
                             ELSE kept[1] = after[Len(after)]

\* C14: a bootstrap run on a configuration without iteration block sends no
\* call on iterations and no story payload with an iteration_id; with an
\* iteration block, the iteration upsert returns the record it wrote and every
\* story payload sent carries that record's id as iteration_id.
C14_OptionalIteration ==
  [][cmd = "bootstrap" =>
       /\ cfg.iteration = <<>> =>
            \A n \in 1..Len(calls') :
               /\ calls'[n].kind # "iterations"
               /\ (calls'[n].kind = "stories" /\ calls'[n].method # "GET")
                    => "iteration_id" \notin DOMAIN calls'[n].payload
       /\ (pc.stage = "iteration" /\ pc'.stage # "done" /\ Len(out') = Len(out) + 1) =>
            IterationReturned(calls'[Len(calls')], loc'.iteration, remote'["iterations"])
       /\ (cfg.iteration # <<>> /\ pc.stage = "stories") =>
            \A n \in (Len(calls) + 1)..Len(calls') :
               calls'[n].method # "GET" =>
                 /\ "iteration_id" \in DOMAIN calls'[n].payload
                 /\ calls'[n].payload.iteration_id = loc.iteration[1].id
    ]_vars

\* a run that created the iteration and then sent a story payload with the
\* id of the record created
C14_Witness ==
  /\ cmd = "bootstrap" /\ pc.stage = "tasks"
  /\ start["iterations"] = <<>> /\ Len(remote["iterations"]) = 1
  /\ loc.iteration = <<remote["iterations"][1]>>
  /\ \E n \in 1..Len(calls) :
       /\ calls[n].kind = "stories" /\ calls[n].method = "POST"
       /\ calls[n].payload.iteration_id = remote["iterations"][1].id

\* the iteration length in force: the configured one, or 7
LengthInForce == IF cfg.org = <<>> THEN 7 ELSE cfg.org[1].iteration_length_days

\* the dates are those of the week of `now` from its Monday on (the days 1, 8,
\* 15, ... are Mondays), for L days
ComputedDates(p, L) ==
  /\ p.start_date % 7 = 1
  /\ p.start_date <= now /\ now < p.start_date + 7
  /\ p.end_date = p.start_date + (L - 1)
  /\ (L = 7 /\ now % 7 = 3) => (p.start_date = now - 2 /\ p.end_date = p.start_date + 6)

\* C15: when the iteration block does not give both dates, the start date
\* sent is the Monday of the week of the current day and the end date is the
\* start date plus the iteration length minus one; when it gives both, they
\* are sent as given.
C15_IterationDates ==
  got # <<>> =>
    IF cfg.iteration[1].start_date # 0 /\ cfg.iteration[1].end_date # 0
      THEN /\ got[1].start_date = cfg.iteration[1].start_date
           /\ got[1].end_date = cfg.iteration[1].end_date
      ELSE ComputedDates(got[1], LengthInForce)

\* a Wednesday, the default length of 7, an iteration block with an end date
\* only: the dates are Monday and Monday + 6
C15_Witness ==
  /\ got # <<>>
  /\ now = 10 /\ cfg.org = <<>>
  /\ cfg.iteration[1].start_date = 0 /\ cfg.iteration[1].end_date # 0
  /\ got[1].start_date = 8 /\ got[1].end_date = 14

\* story i of the configuration names a project or an epic that no
\* configured project or epic is named
NamesUnknown(c, i) ==
  \/ c.stories[i].project \notin {c.projects[k].name : k \in 1..Len(c.projects)}
  \/ c.stories[i].epic \notin {c.epics[k].name : k \in 1..Len(c.epics)}

\* the actions on the stories from story i on, up to the first story with an
\* unknown name: per story the story and then its tasks
RECURSIVE StoryActions(_, _)
StoryActions(c, i) ==
  IF i > Len(c.stories) \/ NamesUnknown(c, i) THEN <<>>
  ELSE <<[kind |-> "story", i |-> i, j |-> 0]>>
       \o [j \in 1..Len(c.stories[i].tasks) |-> [kind |-> "task", i |-> i, j |-> j]]
       \o StoryActions(c, i + 1)

\* the actions of a run on configuration c that no call of _req ends: the
\* projects, then (with a milestone block) the milestone, the epics, the
\* iteration if configured and the stories
Actions(c) ==
  [i \in 1..Len(c.projects) |-> [kind |-> "project", i |-> i, j |-> 0]]
  \o (IF c.milestone = <<>> THEN <<>>
      ELSE <<[kind |-> "milestone", i |-> 0, j |-> 0]>>
           \o [i \in 1..Len(c.epics) |-> [kind |-> "epic", i |-> i, j |-> 0]]
           \o [i \in 1..Len(c.iteration) |-> [kind |-> "iteration", i |-> 0, j |-> 0]]
           \o StoryActions(c, 1))

\* the exit code of such a run
ExitOf(c) ==
  IF c.milestone = <<>> THEN 1
  ELSE IF \E i \in 1..Len(c.stories) : NamesUnknown(c, i) THEN 2
  ELSE 0

\* the collection an action is on
CollectionOf(kind) ==
  CASE kind = "project" -> "projects" [] kind = "milestone" -> "milestones"
    [] kind = "epic" -> "epics" [] kind = "iteration" -> "iterations"
    [] kind = "story" -> "stories" [] kind = "task" -> "tasks"

\* the calls of the run that open an upsert (its list call) or create a task
Opening == SelectSeq(calls, LAMBDA c : c.method = "GET" \/ c.kind = "tasks")

\* the run printed one line per action of the sequence, in its order
Printed(tag, actions) ==
  /\ Len(out) = Len(actions)
  /\ \A n \in 1..Len(out) :
       out[n] = [tag |-> tag, kind |-> actions[n].kind, i |-> actions[n].i,
                 j |-> actions[n].j]

\* the run performed one upsert or task create per action of the sequence, in
\* its order
Performed(opening, actions) ==
  /\ Len(opening) = Len(actions)
  /\ \A n \in 1..Len(opening) : opening[n].kind = CollectionOf(actions[n].kind)

\* C16: a run that no call of _req ends prints, as a dry run, and performs
\* and prints, as a bootstrap run, the same sequence of actions, the one the
\* configuration determines, and ends with the same exit code: both stop at
\* the first story that names an unknown project or epic.
C16_DryRunSameFlow ==
  (pc.stage = "done" /\ hist[Len(hist)].err \notin {"api", "token"}) =>
    /\ exitCode = ExitOf(cfg)
    /\ cmd = "dry-run" => Printed("dry-run", Actions(cfg))
    /\ cmd = "bootstrap" => (Printed("ok", Actions(cfg)) /\ Performed(Opening, Actions(cfg)))

\* a dry run on two stories, the second with an unknown epic name: it stops
\* with exit code 2 after the task of the first story
C16_Witness ==
  /\ pc.stage = "done" /\ cmd = "dry-run" /\ exitCode = 2
  /\ Len(cfg.stories) = 2
  /\ ~NamesUnknown(cfg, 1) /\ NamesUnknown(cfg, 2)
  /\ Len(out) >= 2
  /\ out[Len(out)] = [tag |-> "dry-run", kind |-> "task", i |-> 1, j |-> 1]

\* the place of the last entity of the list with the name
LastNamed(list, name) ==
  CHOOSE k \in 1..Len(list) :
    /\ list[k].name = name
    /\ \A m \in (k + 1)..Len(list) : list[m].name # name

\* the first record of the kind, in listing order, with the external_id
FirstWith(rem, kind, external_id) ==
  rem[kind][Min({k \in 1..Len(rem[kind]) : rem[kind][k].external_id = external_id})]

\* the write calls the step sends
NewWrites ==
  {n \in (Len(calls) + 1)..Len(calls') : calls'[n].method # "GET"}

\* C17: in a bootstrap run the milestone upsert returns the remote record of
\* the milestone; every epic payload carries that record's id as
\* milestone_id; every story payload carries as project_id and epic_id the ids
\* of the remote records of the last configured project and the last
\* configured epic with the names the story gives; every task payload carries
\* as story_id the id of the remote record of its story.
C17_IdentifierThreading ==
  [][cmd = "bootstrap" =>
       /\ (pc.stage = "milestone" /\ pc'.stage # "done" /\ Len(out') = Len(out) + 1) =>
            loc'.milestone =
              <<FirstWith(remote', "milestones", cfg.milestone[1].external_id)>>
       /\ pc.stage = "epics" =>
            \A n \in NewWrites :
               calls'[n].payload.milestone_id =
                 FirstWith(remote, "milestones", cfg.milestone[1].external_id).id
       /\ pc.stage = "stories" =>
            \A n \in NewWrites :
               /\ calls'[n].payload.project_id =
                    FirstWith(remote, "projects",
                              cfg.projects[LastNamed(cfg.projects,
                                 cfg.stories[pc.i].project)].external_id).id
               /\ calls'[n].payload.epic_id =
                    FirstWith(remote, "epics",
                              cfg.epics[LastNamed(cfg.epics,
                                 cfg.stories[pc.i].epic)].external_id).id
       /\ pc.stage = "tasks" =>
            \A n \in NewWrites :
               calls'[n].payload.story_id =
                 FirstWith(remote, "stories", cfg.stories[pc.i].external_id).id
    ]_vars

\* two projects and two epics of one name: the story was sent with the ids of
\* the second project and the second epic, which differ from the first ones'
C17_Witness ==
  /\ cmd = "bootstrap" /\ pc.stage = "tasks"
  /\ Len(cfg.projects) = 2 /\ cfg.projects[1].name = cfg.projects[2].name
  /\ Len(remote["projects"]) = 2 /\ Len(remote["epics"]) = 2
  /\ \E n \in 1..Len(calls) :
       /\ calls[n].kind = "stories" /\ calls[n].method # "GET"
       /\ calls[n].payload.project_id = FirstWith(remote, "projects", "p2").id
       /\ calls[n].payload.project_id # FirstWith(remote, "projects", "p1").id
       /\ calls[n].payload.epic_id = FirstWith(remote, "epics", "e2").id

\* the configured entity a write call on a collection is for, when the
\* upserts of the collection go through the configured entities in order
Entity(kind, k) ==
  CASE kind = "projects" -> cfg.projects[k]
    [] kind = "milestones" -> cfg.milestone[k]
    [] kind = "epics" -> cfg.epics[k]
    [] kind = "iterations" -> cfg.iteration[k]
    [] kind = "stories" -> cfg.stories[k]

\* every write call on an entity follows at once the list call of its upsert
\* and carries the external_id of the entity whose turn it is
WellPaired ==
  \A n \in 1..Len(calls) :
    (calls[n].method # "GET" /\ calls[n].kind # "tasks") =>
      /\ n > 1
      /\ calls[n - 1].method = "GET" /\ calls[n - 1].kind = calls[n].kind
      /\ calls[n].payload.external_id =
           Entity(calls[n].kind, ListsBefore(calls[n].kind, n)).external_id

\* every upsert of a milestone, an epic, an iteration or a story has sent its
\* write call
AllWritten ==
  \A kind \in EntityKinds \ {"projects"} :
     WritesBefore(kind, Len(calls) + 1) = ListsBefore(kind, Len(calls) + 1)

Running == pc.stage \notin {"idle", "done"}

\* C18: a bootstrap run on a configuration with a milestone block and
\* resolvable story references comes to its end; when no call of _req has
\* ended it, it ends with exit code 0 and has performed, in this order, one
\* upsert per configured project, the milestone upsert, one upsert per
\* configured epic, the iteration upsert if configured, and per story in list
\* order its upsert and then one create per task: none skipped, none twice.
C18_CompletePass ==
  /\ [](( /\ pc.stage = "done" /\ cmd = "bootstrap"
          /\ cfg.milestone # <<>> /\ ~HasUnresolvedStory(cfg)
          /\ hist[Len(hist)].err \notin {"api", "token"}) =>
         ( /\ exitCode = 0
           /\ Performed(Opening, Actions(cfg))
           /\ Len(Actions(cfg)) = Len(cfg.projects) + 1 + Len(cfg.epics)
                 + Len(cfg.iteration) + Len(cfg.stories)
                 + TotalTasks(cfg.stories, Len(cfg.stories))
           /\ WellPaired /\ AllWritten ))
  /\ (Running ~> pc.stage = "done")

\* a completed second run on a remote the first run filled: 13 calls (the
\* project found is not written), the last one the create of the task of the
\* second story
C18_Witness ==
  /\ pc.stage = "done" /\ cmd = "bootstrap" /\ exitCode = 0 /\ runs = 2
  /\ Len(cfg.projects) = 1 /\ Len(cfg.epics) = 1 /\ Len(cfg.iteration) = 1
  /\ Len(cfg.stories) = 2
  /\ Len(calls) = 13
  /\ calls[13].kind = "tasks"
  /\ calls[13].payload.external_id = "beeai:task:" \o cfg.stories[2].external_id \o ":1"

\* the step is a pass of bootstrap that reconciles an entity and has sent a
\* call
UpsertCalled ==
  /\ cmd = "bootstrap"
  /\ pc.stage \in {"projects", "milestone", "epics", "iteration", "stories"}
  /\ Len(calls') > Len(calls)

\* the records of the list with the external_id
WithId(list, external_id) == SelectSeq(list, LAMBDA x : x.external_id = external_id)

\* C19 as stated: the upsert of an entity whose external_id no remote record
\* carries leaves at most one remote record with that external_id, also when
\* the remote applies a create it answers with a retryable status.
C19_RetriedCreatesDoNotDuplicate ==
  [][(UpsertCalled /\ Found = <<>>) =>
       Len(WithId(remote'[ReconciledKind], Desired.external_id)) <= 1
    ]_vars

\* the place of the first record of the list with the external_id
FirstPlace(list, external_id) ==
  Min({k \in 1..Len(list) : list[k].external_id = external_id})

\* the list changed in no place but the first with the external_id
OnlyFirstChanged(before, after, external_id) ==
  /\ Len(after) = Len(before)
  /\ \A k \in 1..Len(before) :
       after[k] # before[k] => k = FirstPlace(before, external_id)

\* the list is as before, or as before with one record at its end
AtMostOneNew(before, after) ==
  \/ after = before
  \/ /\ Len(after) = Len(before) + 1
     /\ SubSeq(after, 1, Len(before)) = before

\* C20 as stated: one upsert leaves every record of every other type as it
\* was and, in its own type, changes at most the first record in listing
\* order with the external_id, or else adds one record.
C20_UpsertFrame ==
  [][UpsertCalled =>
       /\ \A k \in Kinds \ {ReconciledKind} : remote'[k] = remote[k]
       /\ IF Found # <<>>
            THEN OnlyFirstChanged(remote[ReconciledKind], remote'[ReconciledKind],
                                  Desired.external_id)
            ELSE AtMostOneNew(remote[ReconciledKind], remote'[ReconciledKind])
    ]_vars

====
